---- MODULE Spec2Model ----
(***************************************************************************)
(* The account security state machine of the workout tracker backend:      *)
(* registration, login with lockout, bearer tokens and the auth            *)
(* middleware, the OTP password-recovery flow, profile password change     *)
(* and account deactivation.                                               *)
(*                                                                         *)
(* Time.  The source reads Date.now() in milliseconds, issues tokens with  *)
(* whole-second iat/exp, and uses durations of 1 s, 10 min and 7 d.  The   *)
(* model's clock `now` counts ticks; TicksPerSec ticks make one second of  *)
(* the source (so a tick is a fraction of a second and `now \div           *)
(* TicksPerSec` is Math.floor(Date.now() / 1000)), and the long durations  *)
(* are scaled down to a few ticks so that every alignment of an event with *)
(* a second boundary, a lock expiry, a code expiry and a token expiry is   *)
(* reachable by single ticks.                                              *)
(*                                                                         *)
(* Requests.  A handler whose awaits bracket no other request's visible    *)
(* effect is one action.  forgotPassword is two steps, because it stores   *)
(* the code, awaits the mail transport, and only then answers (and rolls   *)
(* back): other requests are served in between.  register and the failing  *)
(* path of login exist as one action and as two steps, split at the await  *)
(* after which they write what they decided from an earlier read.          *)
(***************************************************************************)
EXTENDS Integers, FiniteSets, Sequences, TLC

\* ---------------------------------------------------------------- bounds

\* ticks per second of the source clock (the source has 1000 ms per second)
TicksPerSec == 2
\* the clock stops advancing here
MaxClock == 8
\* lockTime (10 minutes in the source), in ticks
LockTime == 3
\* recovery code lifetime (10 minutes in the source), in ticks
OtpTtl == 3
\* JWT_EXPIRE ('7d' in the source), in seconds
TokenTtlSecs == 3
\* refreshThreshold (2 days in the source), in seconds
RefreshThresholdSecs == 2
\* how many issued tokens the model keeps to present later
MaxTokens == 2
\* how many accounts are ever created
MaxUsers == 2

\* ------------------------------------------------------ program constants

\* const maxAttempts = 5
MaxAttempts == 5
\* password.length < 6 is rejected
MinPasswordLen == 6

\* ------------------------------------------------------------ value sets

Null == 0 - 1
NoHash == <<"none">>

Names == {"alice", "bob"}
Emails == {"alice@x.com", "bob@x.com"}
\* candidate passwords; PwLen gives their lengths
Passwords == {"secret1", "wrong12", "abc"}
Otps == {"111111", "222222"}
Procs == {1, 2}
\* ticks that pass inside a handler between two of its clock reads
Lags == {0, 1}

\* password.length
PwLen(p) == Len(p)

\* two passwords of 73 characters that differ in the last one only
LongX == "012345678901234567890123456789012345678901234567890123456789012345678901x"
LongY == "012345678901234567890123456789012345678901234567890123456789012345678901y"

\* an identifier (username or email) as stored: its text and, once
\* deleteAccount has defaced it, the Date.now() of the `deleted_<ts>_` prefix
Ident(base, ts) == [base |-> base, del |-> ts]
Plain(base) == Ident(base, Null)

VARIABLES
    now,      \* Date.now(), in ticks
    users,    \* the users collection: _id -> document
    tokens,   \* tokens handed out in responses that a client still holds
    fp,       \* requests in flight, by process: a forgotPassword awaiting the
              \* mail transport, a register between its lookup and its insert
    req,      \* the last request served: operation, inputs, facts of the pre-state
    res,      \* the response to it
    hist      \* history, per account: what the claims speak about and the
              \* documents do not record (see NewHist)

vars == <<now, users, tokens, fp, req, res, hist>>

Ids == DOMAIN users

\* ------------------------------------------------------------- primitives

\* the key bcrypt derives a digest from: bcryptjs reads the first 72 bytes of
\* the password (the candidates here are ASCII, one byte per character)
BcryptKey(p) == IF Len(p) > 72 THEN SubSeq(p, 1, 72) ELSE p

\* bcrypt.hash(password, salt) / bcrypt.compare(candidate, hash): compare
\* hashes the candidate with the salt the digest carries, so the salt drops
\* out and a digest stands for the key it was made of
BcryptHash(p) == [alg |-> "bcrypt", of |-> BcryptKey(p)]
ComparePassword(u, candidate) == u.password = BcryptHash(candidate)

\* crypto.createHash('sha256').update(otp).digest('hex')
HashOTP(otp) == <<"sha256", otp>>

\* Math.floor(Date.now() / 1000)
NowSecs(t) == t \div TicksPerSec

\* Math.ceil((until - t) / 1000)
CeilSecs(d) == (d + TicksPerSec - 1) \div TicksPerSec

\* jwt.sign({id, iat}, secret, {expiresIn}); `at` is the instant of issue,
\* which the token itself does not carry
GenerateToken(id, t) ==
    [id |-> id, iat |-> NowSecs(t), exp |-> NowSecs(t) + TokenTtlSecs, at |-> t]

NoToken == [id |-> Null, iat |-> Null, exp |-> Null, at |-> Null]

\* the body of a response that carries no account
NoBody == [id |-> Null]

\* the response a client sees; the fields a response lacks hold Null, "",
\* NoToken or NoBody (newToken is the X-New-Token header, user the account
\* the body carries)
Response(status, message, code) ==
    [status |-> status, message |-> message, code |-> code,
     attemptsLeft |-> Null, remainingSeconds |-> Null, token |-> NoToken,
     newToken |-> NoToken, field |-> "", user |-> NoBody]

\* sanitizeUser: the listed properties of the document, and no other
SanitizeUser(id, u) ==
    [id |-> id, username |-> u.username, email |-> u.email, isActive |-> u.isActive]

\* userSchema.methods.toJSON: toObject() without the deleted properties
ToJSONMutant(id, u) ==
    [f \in (DOMAIN u \ {"password", "loginAttempts", "lockUntil"}) \cup {"id"} |->
        IF f = "id" THEN id ELSE u[f]]
ToJSON(id, u) ==
    [f \in (DOMAIN u \ {"password", "resetPasswordToken", "resetPasswordExpire",
                         "loginAttempts", "lockUntil"}) \cup {"id"} |->
        IF f = "id" THEN id ELSE u[f]]

NoRequest == [op |-> "none"]

\* new User(...) with the schema defaults
NewUser(username, email, password) ==
    [username |-> Plain(username), email |-> Plain(email),
     password |-> BcryptHash(password), isActive |-> TRUE,
     loginAttempts |-> 0, lockUntil |-> Null, passwordChangedAt |-> Null,
     resetPasswordToken |-> NoHash, resetPasswordExpire |-> Null,
     lastLogin |-> Null]

\* fails:  failed password checks at login since the last successful login
\*         (counted up to MaxAttempts)
\* resets: successful resetPassword calls since a code was last issued
\*         (counted up to 2); Null while no code was ever issued
\* old, oldExp: the code that a later, different code replaced, and its
\*         expiry, while that expiry has not passed
\* stored: the password last saved through the pre('save') hook
\* changed: the clock when the password of the existing account was last
\*         replaced; Null while it is the one of register
NewHist ==
    [fails |-> 0, resets |-> Null, old |-> "", oldExp |-> Null, stored |-> "",
     changed |-> Null]

\* the client keeps the token of a response (while it holds fewer than
\* MaxTokens), or drops it
Keep(tok, keep) ==
    tokens' = IF keep /\ Cardinality(tokens \cup {tok}) <= MaxTokens
              THEN tokens \cup {tok} ELSE tokens

Init ==
    /\ now = TicksPerSec
    /\ users = << >>
    /\ tokens = {}
    /\ fp = [p \in Procs |-> [pc |-> "idle"]]
    /\ req = NoRequest
    /\ res = Response(0, "", "")
    /\ hist = << >>

\* the history at time t: a replaced code is forgotten once it has expired
Forget(h, t) ==
    [i \in DOMAIN h |-> IF h[i].oldExp # Null /\ h[i].oldExp <= t
                        THEN [h[i] EXCEPT !.old = "", !.oldExp = Null]
                        ELSE h[i]]

\* time passes between requests
Tick ==
    /\ now < MaxClock
    /\ now' = now + 1
    /\ hist' = Forget(hist, now + 1)
    /\ UNCHANGED <<users, tokens, fp, req, res>>

\* ---------------------------------------------------------------- register

\* the unique indexes on username and email (unique: true), as the store
\* applies them to a write of `username`, `email` into document `self`
\* (Null for an insert): the indexes the write would violate
DuplicateKeyMutant(username, email, self) == {}
DuplicateKey(username, email, self) ==
    {f \in {"email", "username"} :
        \E j \in Ids \ {self} : \/ f = "email" /\ users[j].email = email
                                \/ f = "username" /\ users[j].username = username}

\* what a register request is remembered by: its inputs, whether the
\* address and the name belonged to an account when it was answered, and
\* how many accounts there were
RegisterRequest(username, email) ==
    [op |-> "register", username |-> username, email |-> email,
     emailTaken |-> \E i \in Ids : users[i].email = Plain(email),
     nameTaken |-> \E i \in Ids : users[i].username = Plain(username),
     count |-> Cardinality(Ids)]

\* register, served without another write to the collection in between
Register(username, email, password, keep) ==
    LET taken == {i \in Ids : users[i].email = Plain(email)
                              \/ users[i].username = Plain(username)}
        id == Cardinality(Ids) + 1
        tok == GenerateToken(id, now)
    IN  /\ taken # {} \/ Cardinality(Ids) < MaxUsers
        /\ req' = RegisterRequest(username, email)
        /\ UNCHANGED <<now, fp>>
        /\ IF taken # {}
           THEN \E i \in taken :
                  /\ res' = [Response(400, "already registered", "") EXCEPT
                               !.field = IF users[i].email = Plain(email)
                                         THEN "email" ELSE "username"]
                  /\ UNCHANGED <<users, tokens, hist>>
           ELSE IF PwLen(password) < MinPasswordLen
           THEN /\ res' = [Response(400, "Password must be at least 6 characters", "")
                             EXCEPT !.field = "password"]
                /\ UNCHANGED <<users, tokens, hist>>
           ELSE /\ users' = users @@ (id :> NewUser(username, email, password))
                /\ hist' = hist @@ (id :> [NewHist EXCEPT !.stored = password])
                /\ res' = [Response(201, "User registered successfully", "")
                             EXCEPT !.token = tok,
                                    !.user = SanitizeUser(id, NewUser(username, email,
                                                                     password))]
                /\ Keep(tok, keep)

\* register up to its await of User.create: the lookup by email or
\* username, the answer when a document matches, the password length test.
\* A request runs as the first free process.
RegisterCheck(p, username, email, password) ==
    LET taken == {i \in Ids : users[i].email = Plain(email)
                              \/ users[i].username = Plain(username)}
    IN  /\ fp[p].pc = "idle"
        /\ \A q \in Procs : q < p => fp[q].pc # "idle"
        /\ taken # {} \/ Cardinality(Ids) < MaxUsers
        /\ UNCHANGED <<now, users, tokens, hist>>
        /\ IF taken # {}
           THEN \E i \in taken :
                  /\ req' = RegisterRequest(username, email)
                  /\ res' = [Response(400, "already registered", "") EXCEPT
                               !.field = IF users[i].email = Plain(email)
                                         THEN "email" ELSE "username"]
                  /\ UNCHANGED fp
           ELSE IF PwLen(password) < MinPasswordLen
           THEN /\ req' = RegisterRequest(username, email)
                /\ res' = [Response(400, "Password must be at least 6 characters", "")
                             EXCEPT !.field = "password"]
                /\ UNCHANGED fp
           ELSE /\ fp' = [fp EXCEPT ![p] = [pc |-> "creating", username |-> username,
                                            email |-> email, password |-> password]]
                /\ UNCHANGED <<req, res>>

\* register from User.create on: the insert, which the unique indexes
\* refuse (E11000, answered 400 with the index's field), or the new account
\* and its token
RegisterCreate(p, keep) ==
    LET username == fp[p].username
        email == fp[p].email
        dup == DuplicateKey(Plain(username), Plain(email), Null)
        id == Cardinality(Ids) + 1
        tok == GenerateToken(id, now)
    IN  /\ fp[p].pc = "creating"
        /\ dup # {} \/ Cardinality(Ids) < MaxUsers
        /\ fp' = [fp EXCEPT ![p] = [pc |-> "idle"]]
        /\ req' = RegisterRequest(username, email)
        /\ UNCHANGED now
        /\ IF dup # {}
           THEN \E f \in dup :
                  /\ res' = [Response(400, "already exists", "") EXCEPT !.field = f]
                  /\ UNCHANGED <<users, tokens, hist>>
           ELSE /\ users' = users @@ (id :> NewUser(username, email, fp[p].password))
                /\ hist' = hist @@ (id :> [NewHist EXCEPT !.stored = fp[p].password])
                /\ res' = [Response(201, "User registered successfully", "")
                             EXCEPT !.token = tok,
                                    !.user = SanitizeUser(id, NewUser(username, email,
                                                                     fp[p].password))]
                /\ Keep(tok, keep)

\* ------------------------------------------------------------------- login

\* user.lockUntil && user.lockUntil > Date.now()
LockedMutant(u, t) == u.lockUntil # Null /\ u.lockUntil > t /\ u.loginAttempts > MaxAttempts
LockedNeverExpires(u, t) == u.lockUntil # Null
Locked(u, t) == u.lockUntil # Null /\ u.lockUntil > t

\* userSchema.methods.incLoginAttempts, applied to the stored document; `u`
\* is the document the handler loaded, `t` the time of the call
IncLoginAttemptsMutant(stored, u, t) ==
    IF u.lockUntil # Null /\ u.lockUntil < t
    THEN [stored EXCEPT !.loginAttempts = 1, !.lockUntil = Null]
    ELSE IF u.loginAttempts >= MaxAttempts /\ ~Locked(u, t)
    THEN [stored EXCEPT !.loginAttempts = @ + 1, !.lockUntil = t + LockTime]
    ELSE [stored EXCEPT !.loginAttempts = @ + 1]
IncLoginAttempts(stored, u, t) ==
    IF u.lockUntil # Null /\ u.lockUntil < t
    THEN [stored EXCEPT !.loginAttempts = 1, !.lockUntil = Null]
    ELSE IF u.loginAttempts + 1 >= MaxAttempts /\ ~Locked(u, t)
    THEN [stored EXCEPT !.loginAttempts = @ + 1, !.lockUntil = t + LockTime]
    ELSE [stored EXCEPT !.loginAttempts = @ + 1]

\* userSchema.methods.resetLoginAttempts
ResetLoginAttemptsMutant(stored) ==
    [stored EXCEPT !.loginAttempts = 0]
ResetLoginAttempts(stored) ==
    [stored EXCEPT !.loginAttempts = 0, !.lockUntil = Null]

\* the identifiers a client may send: any plain name or address, or the
\* current (possibly defaced) name or address of an account
LoginIdents ==
    {Plain(x) : x \in Names \cup Emails}
        \cup {users[i].email : i \in Ids} \cup {users[i].username : i \in Ids}

Bump(n) == IF n < MaxAttempts THEN n + 1 ELSE n

\* the answer when no document matches the identifier
NoSuchUser == Response(401, "invalid credentials", "")

\* the pre('save') hook on a document whose password was not modified:
\* `return next()`, the document is saved as it is
PreSave(u) == u

\* the same hook in models/user.js: `next()` without return, so the hook
\* goes on to hash this.password, the loaded digest, while the save it has
\* released proceeds.  `rehashed`: the assignment lands before the save
\* collects the modified paths.  The new digest is a digest of the old
\* digest's text.
PreSaveNoReturn(u, rehashed) ==
    IF rehashed THEN [u EXCEPT !.password = BcryptHash("$2a$" \o u.password.of)]
    ELSE u

\* login's answer to a locked account: 423 with the remaining time, computed
\* at `t`; nothing is written
LoginLockedCounts(i, r, t) ==
    /\ req' = r
    /\ res' = [Response(423, "Account is locked", "ACCOUNT_LOCKED")
                 EXCEPT !.remainingSeconds = CeilSecs(users[i].lockUntil - t)]
    /\ hist' = Forget(hist, t)
    /\ users' = [users EXCEPT ![i].loginAttempts = @ + 1]
    /\ UNCHANGED tokens
LoginLocked(i, r, t) ==
    /\ req' = r
    /\ res' = [Response(423, "Account is locked", "ACCOUNT_LOCKED")
                 EXCEPT !.remainingSeconds = CeilSecs(users[i].lockUntil - t)]
    /\ hist' = Forget(hist, t)
    /\ UNCHANGED <<users, tokens>>

\* login reads the clock more than once: `now` is the Date.now() of the lock
\* test on entry; `lag` ticks later (bcrypt and the store calls take time,
\* and even two adjacent statements can straddle a tick) come the reads of
\* the remaining-time computation, of incLoginAttempts, of the second lock
\* test and of lastLogin, at `t`
Login(identifier, password, keep, lag) ==
    LET found == {i \in Ids : users[i].email = identifier
                              \/ users[i].username = identifier}
        t == now + lag
        r == [op |-> "login", identifier |-> identifier, password |-> password,
              uid |-> Null, lockedBefore |-> FALSE, failsBefore |-> 0,
              compared |-> FALSE, before |-> NewUser("", "", "")]
    IN  /\ t <= MaxClock
        /\ now' = t
        /\ UNCHANGED fp
        /\ IF found = {}
           THEN /\ req' = r
                /\ res' = NoSuchUser
                /\ hist' = Forget(hist, t)
                /\ UNCHANGED <<users, tokens>>
           ELSE \E i \in found :
             LET u == users[i]
                 r1 == [r EXCEPT !.uid = i, !.failsBefore = hist[i].fails,
                                 !.lockedBefore = (u.lockUntil # Null /\ u.lockUntil > now),
                                 !.before = u]
             IN
             IF Locked(u, now)
             THEN LoginLocked(i, r1, t)
             ELSE IF ~u.isActive
             THEN /\ req' = r1
                  /\ res' = Response(401, "Account is deactivated", "ACCOUNT_DEACTIVATED")
                  /\ hist' = Forget(hist, t)
                  /\ UNCHANGED <<users, tokens>>
             ELSE IF ~ComparePassword(u, password)
             THEN LET updated == IncLoginAttempts(u, u, t)
                  IN  /\ req' = [r1 EXCEPT !.compared = TRUE]
                      /\ users' = [users EXCEPT ![i] = updated]
                      /\ hist' = [Forget(hist, t) EXCEPT ![i].fails = Bump(@)]
                      /\ UNCHANGED tokens
                      /\ IF Locked(updated, t)
                         THEN res' = [Response(423, "Too many failed attempts",
                                               "ACCOUNT_LOCKED")
                                        EXCEPT !.remainingSeconds =
                                                 CeilSecs(updated.lockUntil - t)]
                         ELSE LET left == MaxAttempts - updated.loginAttempts
                              IN  res' = [Response(401,
                                            IF left > 0
                                            THEN "Invalid credentials. N attempts remaining."
                                            ELSE "Invalid credentials", "")
                                          EXCEPT !.attemptsLeft =
                                                   IF left > 0 THEN left ELSE 0]
             ELSE LET reset == IF u.loginAttempts > 0 \/ u.lockUntil # Null
                               THEN ResetLoginAttempts(u) ELSE u
                      tok == GenerateToken(i, t)
                  IN  /\ req' = [r1 EXCEPT !.compared = TRUE]
                      /\ users' = [users EXCEPT ![i] =
                                      PreSave([reset EXCEPT !.lastLogin = t])]
                      /\ hist' = [Forget(hist, t) EXCEPT ![i].fails = 0]
                      /\ res' = [Response(200, "Login successful", "")
                                   EXCEPT !.token = tok,
                                          !.user = SanitizeUser(i, u)]
                      /\ Keep(tok, keep)

\* login against the schema of models/user.js, which has no lockout fields
\* or methods: the lock test finds no lockUntil, a wrong password ends in the
\* TypeError of user.incLoginAttempts (answered 500 by the catch), a right
\* one skips resetLoginAttempts, sets lastLogin and saves through that
\* file's hook
LoginNoReturn(identifier, password, keep, rehashed) ==
    LET found == {i \in Ids : users[i].email = identifier
                              \/ users[i].username = identifier}
        r == [op |-> "login", identifier |-> identifier, password |-> password,
              uid |-> Null, lockedBefore |-> FALSE, failsBefore |-> 0,
              compared |-> FALSE, before |-> NewUser("", "", "")]
    IN  /\ UNCHANGED <<now, fp, hist>>
        /\ IF found = {}
           THEN req' = r /\ res' = NoSuchUser /\ UNCHANGED <<users, tokens>>
           ELSE \E i \in found :
             LET u == users[i]
                 r1 == [r EXCEPT !.uid = i, !.before = u]
                 tok == GenerateToken(i, now)
             IN
             IF ~u.isActive
             THEN /\ req' = r1
                  /\ res' = Response(401, "Account is deactivated", "ACCOUNT_DEACTIVATED")
                  /\ UNCHANGED <<users, tokens>>
             ELSE IF ~ComparePassword(u, password)
             THEN /\ req' = [r1 EXCEPT !.compared = TRUE]
                  /\ res' = Response(500, "Server error during login", "")
                  /\ UNCHANGED <<users, tokens>>
             ELSE /\ req' = [r1 EXCEPT !.compared = TRUE]
                  /\ users' = [users EXCEPT ![i] =
                                  PreSaveNoReturn([u EXCEPT !.lastLogin = now], rehashed)]
                  /\ res' = [Response(200, "Login successful", "")
                               EXCEPT !.token = tok, !.user = SanitizeUser(i, u)]
                  /\ Keep(tok, keep)

\* login with a wrong password on an unlocked, active account, up to its
\* await of incLoginAttempts: the document is loaded, the lock and isActive
\* tests pass, comparePassword answers false.  A request runs as the first
\* free process.
LoginCheck(p, identifier, password) ==
    LET found == {i \in Ids : users[i].email = identifier
                              \/ users[i].username = identifier}
    IN  /\ fp[p].pc = "idle"
        /\ \A q \in Procs : q < p => fp[q].pc # "idle"
        /\ \E i \in found :
              /\ ~Locked(users[i], now)
              /\ users[i].isActive
              /\ ~ComparePassword(users[i], password)
              /\ fp' = [fp EXCEPT ![p] = [pc |-> "failing", uid |-> i,
                                          loaded |-> users[i],
                                          identifier |-> identifier,
                                          password |-> password]]
        /\ UNCHANGED <<now, users, tokens, req, res, hist>>

\* the same login from incLoginAttempts on: the update, computed from the
\* document loaded before and applied to the stored one, the reload, and
\* the answer
LoginFail(p) ==
    LET i == fp[p].uid
        updated == IncLoginAttempts(users[i], fp[p].loaded, now)
        left == MaxAttempts - updated.loginAttempts
    IN  /\ fp[p].pc = "failing"
        /\ fp' = [fp EXCEPT ![p] = [pc |-> "idle"]]
        /\ users' = [users EXCEPT ![i] = updated]
        /\ hist' = [Forget(hist, now) EXCEPT ![i].fails = Bump(@)]
        /\ req' = [op |-> "login", identifier |-> fp[p].identifier,
                   password |-> fp[p].password, uid |-> i, compared |-> TRUE,
                   before |-> fp[p].loaded, at |-> now]
        /\ res' = IF Locked(updated, now)
                  THEN [Response(423, "Too many failed attempts", "ACCOUNT_LOCKED")
                          EXCEPT !.remainingSeconds = CeilSecs(updated.lockUntil - now)]
                  ELSE [Response(401, IF left > 0
                                      THEN "Invalid credentials. N attempts remaining."
                                      ELSE "Invalid credentials", "")
                          EXCEPT !.attemptsLeft = IF left > 0 THEN left ELSE 0]
        /\ UNCHANGED <<now, tokens>>

\* -------------------------------------------------------------- middleware

\* passwordChangedAt.getTime() / 1000, truncated, against the token's iat
ChangedAfterMutant(u, tok) ==
    u.passwordChangedAt # Null /\ tok.iat + 1 < NowSecs(u.passwordChangedAt)
ChangedAfter(u, tok) ==
    u.passwordChangedAt # Null /\ tok.iat < NowSecs(u.passwordChangedAt)

\* protect: the code of the rejection, or "OK" when next() is called.  The
\* tokens presented are tokens this server signed, so jwt.verify can only
\* fail on their expiry; documents are never removed, so the subject exists.
ProtectSingleToken(tok, t) ==
    IF NowSecs(t) >= tok.exp THEN "TOKEN_EXPIRED"
    ELSE IF tok.id \notin Ids THEN "USER_NOT_FOUND"
    ELSE IF ~users[tok.id].isActive THEN "ACCOUNT_DEACTIVATED"
    ELSE IF ChangedAfter(users[tok.id], tok) THEN "PASSWORD_CHANGED"
    ELSE IF \E n \in tokens : n.id = tok.id /\ n.at > tok.at THEN "INVALID_TOKEN"
    ELSE "OK"
ProtectMutant(tok, t) ==
    IF NowSecs(t) >= tok.exp THEN "TOKEN_EXPIRED"
    ELSE IF tok.id \notin Ids THEN "USER_NOT_FOUND"
    ELSE IF ChangedAfter(users[tok.id], tok) THEN "PASSWORD_CHANGED"
    ELSE "OK"
Protect(tok, t) ==
    IF NowSecs(t) >= tok.exp THEN "TOKEN_EXPIRED"
    ELSE IF tok.id \notin Ids THEN "USER_NOT_FOUND"
    ELSE IF ~users[tok.id].isActive THEN "ACCOUNT_DEACTIVATED"
    ELSE IF ChangedAfter(users[tok.id], tok) THEN "PASSWORD_CHANGED"
    ELSE "OK"

\* refreshIfNeeded, after protect has accepted `tok`: the replacement token,
\* or NoToken
RefreshIfNeededMutant(tok, t) ==
    LET expiresIn == tok.exp - NowSecs(t)
    IN  IF expiresIn <= RefreshThresholdSecs /\ expiresIn > 0
        THEN GenerateToken(tok.id, t) ELSE NoToken
RefreshIfNeeded(tok, t) ==
    LET expiresIn == tok.exp - NowSecs(t)
    IN  IF expiresIn < RefreshThresholdSecs /\ expiresIn > 0
        THEN GenerateToken(tok.id, t) ELSE NoToken

\* the pre('save') hook on a document whose password was modified and that
\* is not new: hash, and set passwordChangedAt = Date.now() - 1000
SavePasswordUnlocks(u, newPassword, t) ==
    [u EXCEPT !.password = BcryptHash(newPassword),
              !.passwordChangedAt = t - TicksPerSec,
              !.loginAttempts = 0, !.lockUntil = Null]
SavePasswordStampsAhead(u, newPassword, t) ==
    [u EXCEPT !.password = BcryptHash(newPassword),
              !.passwordChangedAt = t + TicksPerSec]
SavePassword(u, newPassword, t) ==
    [u EXCEPT !.password = BcryptHash(newPassword),
              !.passwordChangedAt = t - TicksPerSec]

Rejected(code) == Response(401, "rejected by protect", code)

\* GET /api/auth/me: protect, then getMe
GetMe(tok) ==
    LET code == Protect(tok, now)
    IN  /\ req' = [op |-> "getMe", token |-> tok, uid |-> tok.id,
                   before |-> users[tok.id]]
        /\ res' = IF code = "OK"
                  THEN [Response(200, "", "") EXCEPT !.user = SanitizeUser(tok.id, users[tok.id])]
                  ELSE Rejected(code)
        /\ UNCHANGED <<now, users, tokens, fp, hist>>

\* --------------------------------------------------------- user controller

\* GET /api/user/profile: protect, refreshIfNeeded, then getProfile
GetProfile(tok, keep) ==
    LET code == Protect(tok, now)
        i == tok.id
        fresh == RefreshIfNeeded(tok, now)
    IN  /\ req' = [op |-> "getProfile", token |-> tok, uid |-> i, before |-> users[i],
                   at |-> now]
        /\ UNCHANGED <<now, users, fp, hist>>
        /\ IF code # "OK"
           THEN res' = Rejected(code) /\ UNCHANGED tokens
           ELSE /\ Keep(fresh, keep /\ fresh # NoToken)
                /\ res' = [Response(200, "", "") EXCEPT !.newToken = fresh,
                                                        !.user = ToJSON(i, users[i])]

\* updateProfile edits the loaded document and writes it with one save();
\* a return before the save drops the edits.  Unsaved: what is stored then.
UnsavedMutant(u, edited) == edited
Unsaved(u, edited) == u

\* PUT /api/user/profile: protect, refreshIfNeeded, then updateProfile.
\* "" stands for a field the body does not carry.
UpdateProfile(tok, username, email, currentPassword, newPassword, keep) ==
    LET code == Protect(tok, now)
        i == tok.id
        u == users[i]
        fresh == RefreshIfNeeded(tok, now)
        Resp(status, message, field) ==
            [Response(status, message, "") EXCEPT !.field = field, !.newToken = fresh]
        Done(saved) ==
            [Resp(200, "Profile updated successfully", "") EXCEPT !.user = ToJSON(i, saved)]
        nameChange == username # "" /\ Plain(username) # u.username
        mailChange == email # "" /\ Plain(email) # u.email
        u1 == IF nameChange THEN [u EXCEPT !.username = Plain(username)] ELSE u
        u2 == IF mailChange THEN [u1 EXCEPT !.email = Plain(email)] ELSE u1
    IN  /\ req' = [op |-> "updateProfile", token |-> tok, uid |-> i, before |-> u,
                   at |-> now, edits |-> u2 # u]
        /\ UNCHANGED <<now, fp>>
        /\ IF code # "OK"
           THEN res' = Rejected(code) /\ UNCHANGED <<users, tokens>>
           ELSE /\ Keep(fresh, keep /\ fresh # NoToken)
                /\ IF nameChange /\ \E j \in Ids \ {i} : users[j].username = Plain(username)
                   THEN /\ res' = Resp(400, "Username already taken", "username")
                        /\ UNCHANGED users
                   ELSE IF mailChange /\ \E j \in Ids \ {i} : users[j].email = Plain(email)
                   THEN /\ res' = Resp(400, "Email already registered", "email")
                        /\ users' = [users EXCEPT ![i] = Unsaved(u, u1)]
                   ELSE IF currentPassword # "" /\ newPassword # ""
                   THEN IF ~ComparePassword(u, currentPassword)
                        THEN /\ res' = Resp(401, "Current password is incorrect",
                                            "currentPassword")
                             /\ users' = [users EXCEPT ![i] = Unsaved(u, u2)]
                        ELSE IF PwLen(newPassword) < MinPasswordLen
                        THEN /\ res' = Resp(400, "New password must be at least 6 characters",
                                            "newPassword")
                             /\ users' = [users EXCEPT ![i] = Unsaved(u, u2)]
                        ELSE IF ComparePassword(u, newPassword)
                        THEN /\ res' = Resp(400, "New password must be different",
                                            "newPassword")
                             /\ users' = [users EXCEPT ![i] = Unsaved(u, u2)]
                        ELSE /\ users' = [users EXCEPT ![i] = SavePassword(u2, newPassword, now)]
                             /\ res' = Done(SavePassword(u2, newPassword, now))
                   ELSE IF currentPassword # "" \/ newPassword # ""
                   THEN /\ res' = Resp(400, "Both passwords are required", "")
                        /\ users' = [users EXCEPT ![i] = Unsaved(u, u2)]
                   ELSE IF DuplicateKey(u2.username, u2.email, i) # {}
                   THEN /\ \E f \in DuplicateKey(u2.username, u2.email, i) :
                             res' = Resp(400, "already exists", f)
                        /\ UNCHANGED users
                   ELSE /\ users' = [users EXCEPT ![i] = u2]
                        /\ res' = Done(u2)
        /\ hist' = IF users'[i].password # u.password
                   THEN [hist EXCEPT ![i].stored = newPassword, ![i].changed = now]
                   ELSE hist

\* user.isActive = false; user.email = `deleted_${Date.now()}_${user.email}`;
\* user.username likewise
DefaceMutant(u, t) == [u EXCEPT !.isActive = FALSE]
Deface(u, t) ==
    [u EXCEPT !.isActive = FALSE,
              !.email = Ident(u.email.base, t),
              !.username = Ident(u.username.base, t)]

\* POST /api/user/account: protect, refreshIfNeeded, then deleteAccount.  The
\* save fails on the unique indexes when another document already carries
\* the same defaced name or address.
DeleteAccount(tok, password, keep) ==
    LET code == Protect(tok, now)
        i == tok.id
        u == users[i]
        fresh == RefreshIfNeeded(tok, now)
        Resp(status, message) ==
            [Response(status, message, "") EXCEPT !.newToken = fresh]
        defaced == Deface(u, now)
    IN  /\ req' = [op |-> "deleteAccount", token |-> tok, uid |-> i, before |-> u,
                   at |-> now]
        /\ UNCHANGED <<now, fp, hist>>
        /\ IF code # "OK"
           THEN res' = Rejected(code) /\ UNCHANGED <<users, tokens>>
           ELSE /\ Keep(fresh, keep /\ fresh # NoToken)
                /\ IF ~ComparePassword(u, password)
                   THEN res' = Resp(401, "Incorrect password") /\ UNCHANGED users
                   ELSE IF DuplicateKey(defaced.username, defaced.email, i) # {}
                   THEN res' = Resp(500, "Server error while deleting account")
                        /\ UNCHANGED users
                   ELSE /\ users' = [users EXCEPT ![i] = defaced]
                        /\ res' = Resp(200, "Account deleted successfully")

\* ---------------------------------------------------------- recovery flow

\* the addresses a client may send: any plain address, or the current
\* (possibly defaced) address of an account
MailIdents == {Plain(x) : x \in Emails} \cup {users[i].email : i \in Ids}

\* sendEmail (utils/sendEmail.js): the transport accepts the message and
\* sendMail's info object is returned, which has no `success` property, or
\* the call throws.  `success` is what emailSent.success evaluates to.
SendEmail(outcome) ==
    [threw |-> outcome = "throw", success |-> FALSE]

Outcomes == {"info", "throw"}

\* user.resetPasswordToken = hashedOTP; user.resetPasswordExpire = now + 10 min
StoreCodeMutant(u, otp, t) ==
    IF u.resetPasswordExpire # Null /\ u.resetPasswordExpire > t THEN u
    ELSE [u EXCEPT !.resetPasswordToken = HashOTP(otp),
                   !.resetPasswordExpire = t + OtpTtl]
StoreCode(u, otp, t) ==
    [u EXCEPT !.resetPasswordToken = HashOTP(otp),
              !.resetPasswordExpire = t + OtpTtl]

\* user.resetPasswordToken = undefined; user.resetPasswordExpire = undefined
ClearCodeMutant(u) == u
ClearCode(u) ==
    [u EXCEPT !.resetPasswordToken = NoHash, !.resetPasswordExpire = Null]

\* the code a document holds, "" for none
StoredOtp(u) ==
    IF \E c \in Otps : u.resetPasswordToken = HashOTP(c)
    THEN CHOOSE c \in Otps : u.resetPasswordToken = HashOTP(c) ELSE ""

\* the answer for an address that belongs to no account or to an inactive one
MaskedResponse ==
    Response(200, "If an account with that email exists, an OTP has been sent.", "")

ForgotPasswordStartAnyAccount(p, email, otp) ==
    LET found == {i \in Ids : users[i].email = email}
        r == [op |-> "forgotPassword", uid |-> Null, at |-> now,
              case |-> "unknown", otp |-> ""]
    IN  /\ fp[p].pc = "idle"
        /\ \A q \in Procs : q < p => fp[q].pc # "idle"
        /\ UNCHANGED <<now, tokens, hist>>
        /\ IF found = {}
           THEN req' = r /\ res' = MaskedResponse /\ UNCHANGED <<users, fp>>
           ELSE \E i \in found :
                  /\ users' = [users EXCEPT ![i] = StoreCode(@, otp, now)]
                  /\ fp' = [fp EXCEPT ![p] = [pc |-> "sending", uid |-> i,
                                               otp |-> otp, at |-> now]]
                  /\ req' = [r EXCEPT !.uid = i,
                                      !.case = IF users[i].isActive THEN "stored"
                                               ELSE "inactive",
                                      !.otp = otp]
                  /\ res' = Response(0, "", "")

\* forgotPassword up to its await of sendEmail: the lookup, the two masked
\* answers, or the code generated (Math.random) and saved.  A request runs
\* as the first free process.
ForgotPasswordStart(p, email, otp) ==
    LET found == {i \in Ids : users[i].email = email}
        r == [op |-> "forgotPassword", uid |-> Null, at |-> now,
              case |-> "unknown", otp |-> ""]
        masked == MaskedResponse
    IN  /\ fp[p].pc = "idle"
        /\ \A q \in Procs : q < p => fp[q].pc # "idle"
        /\ UNCHANGED <<now, tokens>>
        /\ IF found = {}
           THEN req' = r /\ res' = masked /\ UNCHANGED <<users, fp, hist>>
           ELSE \E i \in found :
             IF ~users[i].isActive
             THEN /\ req' = [r EXCEPT !.uid = i, !.case = "inactive"]
                  /\ res' = masked
                  /\ UNCHANGED <<users, fp, hist>>
             ELSE LET prior == StoredOtp(users[i])
                      h == hist[i]
                  IN  /\ users' = [users EXCEPT ![i] = StoreCode(@, otp, now)]
                      /\ fp' = [fp EXCEPT ![p] = [pc |-> "sending", uid |-> i,
                                                   otp |-> otp, at |-> now]]
                      /\ hist' = [hist EXCEPT ![i] =
                            [h EXCEPT !.resets = 0,
                                      !.old = IF prior # "" /\ prior # otp THEN prior
                                              ELSE IF h.old = otp THEN "" ELSE h.old,
                                      !.oldExp = IF prior # "" /\ prior # otp
                                                 THEN users[i].resetPasswordExpire
                                                 ELSE IF h.old = otp THEN Null ELSE h.oldExp]]
                      /\ req' = [r EXCEPT !.op = "forgotPasswordStored", !.uid = i,
                                          !.case = "stored", !.otp = otp]
                      /\ res' = Response(0, "", "")

\* forgotPassword from the completion of sendEmail: the answer, and the
\* rollback when the delivery did not report success
ForgotPasswordFinish(p, outcome) ==
    LET i == fp[p].uid
        sent == SendEmail(outcome)
        ok == ~sent.threw /\ sent.success
    IN  /\ fp[p].pc = "sending"
        /\ fp' = [fp EXCEPT ![p] = [pc |-> "idle"]]
        /\ req' = [op |-> "forgotPassword", uid |-> i, at |-> fp[p].at,
                   case |-> IF outcome = "info" THEN "delivered" ELSE "undelivered",
                   otp |-> fp[p].otp]
        /\ UNCHANGED <<now, tokens, hist>>
        /\ IF ok
           THEN /\ res' = Response(200, "OTP sent to your email successfully", "")
                /\ UNCHANGED users
           ELSE /\ users' = [users EXCEPT ![i] = ClearCode(@)]
                /\ res' = Response(500, "Email could not be sent. Please try again later.", "")

\* User.findOne({email, resetPasswordToken: hashedOTP, resetPasswordExpire: {$gt: now}})
CodeMatchesAtExpiry(u, email, otp, t) ==
    /\ u.email = email
    /\ u.resetPasswordToken = HashOTP(otp)
    /\ u.resetPasswordExpire # Null /\ u.resetPasswordExpire >= t
CodeMatches(u, email, otp, t) ==
    /\ u.email = email
    /\ u.resetPasswordToken = HashOTP(otp)
    /\ u.resetPasswordExpire # Null /\ u.resetPasswordExpire > t

VerifyOTPConsumes(email, otp) ==
    LET found == {i \in Ids : CodeMatches(users[i], email, otp, now)}
        owner == {i \in Ids : users[i].email = email}
        r == [op |-> "verifyOTP", email |-> email, otp |-> otp,
              uid |-> IF owner = {} THEN Null ELSE CHOOSE i \in owner : TRUE,
              at |-> now]
    IN  /\ req' = r
        /\ UNCHANGED <<now, tokens, fp, hist>>
        /\ users' = [i \in Ids |-> IF i \in found THEN ClearCode(users[i]) ELSE users[i]]
        /\ res' = IF found = {}
                  THEN Response(400, "Invalid or expired OTP", "INVALID_OTP")
                  ELSE Response(200, "OTP verified successfully", "")

VerifyOTP(email, otp) ==
    LET found == {i \in Ids : CodeMatches(users[i], email, otp, now)}
        owner == {i \in Ids : users[i].email = email}
        r == [op |-> "verifyOTP", email |-> email, otp |-> otp,
              uid |-> IF owner = {} THEN Null ELSE CHOOSE i \in owner : TRUE,
              at |-> now]
    IN  /\ req' = r
        /\ UNCHANGED <<now, users, tokens, fp, hist>>
        /\ res' = IF found = {}
                  THEN Response(400, "Invalid or expired OTP", "INVALID_OTP")
                  ELSE Response(200, "OTP verified successfully", "")

\* resetPassword reads email and newPassword from the body; the otp the
\* route validates is not read.  ResetAccepts: the call changes the password.
ResetAccepts(email, otp, newPassword) ==
    /\ PwLen(newPassword) >= MinPasswordLen
    /\ \E i \in Ids : users[i].email = email

ResetPassword(email, otp, newPassword) ==
    LET found == {i \in Ids : users[i].email = email}
        r == [op |-> "resetPassword", email |-> email, otp |-> otp, uid |-> Null,
              validCode |-> FALSE, before |-> NewUser("", "", ""), at |-> now]
    IN  /\ UNCHANGED <<now, tokens, fp>>
        /\ IF ~ResetAccepts(email, otp, newPassword)
           THEN /\ req' = r
                /\ res' = IF PwLen(newPassword) < MinPasswordLen
                          THEN Response(400, "Password must be at least 6 characters", "")
                          ELSE Response(404, "User not found", "")
                /\ UNCHANGED <<users, hist>>
           ELSE \E i \in found :
             LET u == users[i]
             IN  /\ req' = [r EXCEPT !.uid = i, !.before = u,
                                     !.validCode = (/\ u.resetPasswordToken = HashOTP(otp)
                                                    /\ u.resetPasswordExpire # Null
                                                    /\ u.resetPasswordExpire > now)]
                 /\ users' = [users EXCEPT ![i] =
                        SavePassword([ClearCode(u) EXCEPT !.passwordChangedAt = now],
                                     newPassword, now)]
                 /\ hist' = [hist EXCEPT ![i].resets = IF @ = Null THEN Null
                                                       ELSE IF @ < 2 THEN @ + 1 ELSE @,
                                         ![i].stored = newPassword,
                                         ![i].changed = now]
                 /\ res' = Response(200, "Password reset successfully", "")

\* -------------------------------------------------------- specifications

Next ==
    \/ Tick
    \/ \E n \in Names, e \in Emails, p \in Passwords, k \in BOOLEAN :
          Register(n, e, p, k)
    \/ \E p \in Procs, n \in Names, e \in Emails, pw \in Passwords :
          RegisterCheck(p, n, e, pw)
    \/ \E p \in Procs, k \in BOOLEAN : RegisterCreate(p, k)
    \/ \E ident \in LoginIdents, p \in Passwords, k \in BOOLEAN, lag \in Lags :
          Login(ident, p, k, lag)
    \/ \E p \in Procs, ident \in LoginIdents, pw \in Passwords : LoginCheck(p, ident, pw)
    \/ \E p \in Procs : LoginFail(p)
    \/ \E tok \in tokens : GetMe(tok)
    \/ \E tok \in tokens, k \in BOOLEAN : GetProfile(tok, k)
    \/ \E tok \in tokens, n \in Names \cup {""}, e \in Emails \cup {""},
          cp \in Passwords \cup {""}, np \in Passwords \cup {""}, k \in BOOLEAN :
          UpdateProfile(tok, n, e, cp, np, k)
    \/ \E tok \in tokens, p \in Passwords, k \in BOOLEAN : DeleteAccount(tok, p, k)
    \/ \E p \in Procs, e \in MailIdents, c \in Otps : ForgotPasswordStart(p, e, c)
    \/ \E p \in Procs, o \in Outcomes : ForgotPasswordFinish(p, o)
    \/ \E e \in MailIdents, c \in Otps : VerifyOTP(e, c)
    \/ \E e \in MailIdents, c \in Otps, p \in Passwords : ResetPassword(e, c, p)

Spec == Init /\ [][Next]_vars

\* the lockout guard: one account, logins at arbitrary times
NextLock ==
    \/ Tick
    \/ \E p \in {"secret1", "abc"} : Register("alice", "alice@x.com", p, FALSE)
    \/ \E ident \in LoginIdents, p \in Passwords, lag \in Lags :
          Login(ident, p, FALSE, lag)

SpecLock == Init /\ [][NextLock]_vars

\* the recovery flow: one account, two forgotPassword requests that may
\* overlap, verification and reset at arbitrary times, until the first
\* code that can be issued has expired
NextRecovery ==
    \/ now < TicksPerSec + OtpTtl + 1 /\ Tick
    \/ Register("alice", "alice@x.com", "secret1", FALSE)
    \/ \E p \in Procs, e \in MailIdents, c \in Otps : ForgotPasswordStart(p, e, c)
    \/ \E p \in Procs, o \in Outcomes : ForgotPasswordFinish(p, o)
    \/ \E e \in MailIdents, c \in Otps : VerifyOTP(e, c)
    \/ \E c \in Otps, p \in {"wrong12", "abc"} :
          ResetPassword(Plain("alice@x.com"), c, p)

SpecRecovery == Init /\ [][NextRecovery]_vars

\* tokens against password changes: the tokens of register and login, both
\* ways of changing the password, and the middleware; the client knows the
\* current password
Knows(p) == \A i \in Ids : ComparePassword(users[i], p)

NextToken ==
    \/ Tick
    \/ Register("alice", "alice@x.com", "secret1", TRUE)
    \/ \E p \in {"secret1", "wrong12"}, k \in BOOLEAN :
          Knows(p) /\ Login(Plain("alice"), p, k, 0)
    \/ \E tok \in tokens : GetMe(tok)
    \/ \E tok \in tokens, cp \in {"secret1", "wrong12"}, np \in {"secret1", "wrong12"} :
          Knows(cp) /\ UpdateProfile(tok, "", "", cp, np, FALSE)
    \/ \E p \in {"secret1", "wrong12"} : ResetPassword(Plain("alice@x.com"), "111111", p)

SpecToken == Init /\ [][NextToken]_vars

\* the accounts collection: register requests that may overlap each other
\* and the profile and account routes, renames, deactivation, and the
\* middleware on the tokens handed out
NextAccounts ==
    \/ now < TicksPerSec + 1 /\ Tick
    \/ \E p \in Procs, n \in Names, e \in Emails : RegisterCheck(p, n, e, "secret1")
    \/ \E p \in Procs : RegisterCreate(p, TRUE)
    \/ \E tok \in tokens, n \in Names : UpdateProfile(tok, n, "", "", "", FALSE)
    \/ \E tok \in tokens, e \in Emails : UpdateProfile(tok, "", e, "", "", FALSE)
    \/ \E tok \in tokens : DeleteAccount(tok, "secret1", FALSE)

SpecAccounts == Init /\ [][NextAccounts]_vars

\* deactivation against the middleware: one name and address, registered,
\* deactivated and registered again, and the tokens of both accounts on the
\* protected routes until they expire
NextDeactivate ==
    \/ Tick
    \/ Register("alice", "alice@x.com", "secret1", TRUE)
    \/ \E tok \in tokens : GetMe(tok)
    \/ \E tok \in tokens : UpdateProfile(tok, "", "bob@x.com", "", "", FALSE)
    \/ \E tok \in tokens, p \in {"secret1", "wrong12"} : DeleteAccount(tok, p, FALSE)

SpecDeactivate == Init /\ [][NextDeactivate]_vars

\* token refresh: the token of register presented on the protected routes
\* until it expires, the replacement tokens kept next to it, a password
\* change and a deactivation
NextRefresh ==
    \/ Tick
    \/ Register("alice", "alice@x.com", "secret1", TRUE)
    \/ \E tok \in tokens : GetMe(tok)
    \/ \E tok \in tokens : UpdateProfile(tok, "", "", "", "", TRUE)
    \/ \E tok \in tokens : UpdateProfile(tok, "", "", "secret1", "wrong12", TRUE)
    \/ \E tok \in tokens : DeleteAccount(tok, "secret1", TRUE)

SpecRefresh == Init /\ [][NextRefresh]_vars

\* the password hasher: passwords stored by register, resetPassword and
\* updateProfile, short ones and ones longer than bcrypt's key, and logins
\* with each of them
HashPasswords == {"secret1", "wrong12", LongX, LongY}

NextHash ==
    \/ now < TicksPerSec + 1 /\ Tick
    \/ \E p \in HashPasswords : Register("alice", "alice@x.com", p, TRUE)
    \/ \E p \in HashPasswords : Login(Plain("alice"), p, FALSE, 0)
    \/ \E tok \in tokens, cp \in HashPasswords, np \in HashPasswords :
          UpdateProfile(tok, "", "", cp, np, FALSE)
    \/ \E p \in HashPasswords : ResetPassword(Plain("alice@x.com"), "111111", p)

SpecHash == Init /\ [][NextHash]_vars

\* what responses carry: one account, its tokens on the routes that answer
\* with the account, while a recovery code is stored or not
NextBodies ==
    \/ now < TicksPerSec + 2 /\ Tick
    \/ Register("alice", "alice@x.com", "secret1", TRUE)
    \/ \E p \in {"secret1", "abc"} : Login(Plain("alice"), p, TRUE, 0)
    \/ \E tok \in tokens : GetMe(tok)
    \/ \E tok \in tokens : GetProfile(tok, FALSE)
    \/ \E tok \in tokens : UpdateProfile(tok, "bob", "", "", "", FALSE)
    \/ \E tok \in tokens : UpdateProfile(tok, "", "", "secret1", "wrong12", FALSE)
    \/ \E p \in Procs : ForgotPasswordStart(p, Plain("alice@x.com"), "111111")
    \/ \E p \in Procs, o \in Outcomes : ForgotPasswordFinish(p, o)

SpecBodies == Init /\ [][NextBodies]_vars

\* failed logins on one account that may overlap each other
NextRace ==
    \/ Tick
    \/ Register("alice", "alice@x.com", "secret1", FALSE)
    \/ \E p \in Procs, ident \in {Plain("alice"), Plain("alice@x.com")} :
          LoginCheck(p, ident, "wrong12")
    \/ \E p \in Procs : LoginFail(p)

SpecRace == Init /\ [][NextRace]_vars

\* recovery requests for addresses with and without an account: one
\* account, active and then deactivated, and forgotPassword for its plain
\* and its defaced address and for an address of no account
NextSilent ==
    \/ now < TicksPerSec + 2 /\ Tick
    \/ Register("alice", "alice@x.com", "secret1", TRUE)
    \/ \E tok \in tokens : DeleteAccount(tok, "secret1", FALSE)
    \/ \E p \in Procs, e \in MailIdents, c \in Otps : ForgotPasswordStart(p, e, c)
    \/ \E p \in Procs, o \in Outcomes : ForgotPasswordFinish(p, o)

SpecSilent == Init /\ [][NextSilent]_vars

\* saves that do not modify the password, under the hook of models/user.js:
\* one account and its logins
NextNoReturn ==
    \/ Tick
    \/ Register("alice", "alice@x.com", "secret1", FALSE)
    \/ \E ident \in {Plain("alice"), Plain("alice@x.com")}, p \in {"secret1", "wrong12"},
          k \in BOOLEAN, rehashed \in BOOLEAN :
          LoginNoReturn(ident, p, k, rehashed)

SpecNoReturn == Init /\ [][NextNoReturn]_vars

\* every password check of one account: logins with the right and a wrong
\* password, its tokens on updateProfile and deleteAccount with either, and
\* resetPassword, while the account is open and while it is locked
NextGuard ==
    \/ Tick
    \/ Register("alice", "alice@x.com", "secret1", TRUE)
    \/ \E p \in {"secret1", "wrong12"} : Login(Plain("alice"), p, FALSE, 0)
    \/ \E tok \in tokens, cp \in {"secret1", "wrong12"} :
          UpdateProfile(tok, "", "", cp, "secret2", FALSE)
    \/ \E tok \in tokens : DeleteAccount(tok, "wrong12", FALSE)
    \/ ResetPassword(Plain("alice@x.com"), "111111", "secret1")

SpecGuard == Init /\ [][NextGuard]_vars

\* profile updates of one account next to another: a taken name, a taken
\* address, or a free name and address, each with the password fields
\* absent, half filled, wrong, too short, unchanged and acceptable
ProfileEdits == {<<"", "">>, <<"bob", "">>, <<"", "bob@x.com">>, <<"carol", "carol@x.com">>}

NextProfile ==
    \/ now < TicksPerSec + 1 /\ Tick
    \/ \E a \in {<<"alice", "alice@x.com", TRUE>>, <<"bob", "bob@x.com", FALSE>>} :
          Register(a[1], a[2], "secret1", a[3])
    \/ \E tok \in tokens, ed \in ProfileEdits,
          cp \in {"", "secret1", "wrong12"}, np \in {"", "abc", "secret1", "secret2"} :
          UpdateProfile(tok, ed[1], ed[2], cp, np, FALSE)

SpecProfile == Init /\ [][NextProfile]_vars

\* ------------------------------------------------------------------ claims

\* C1: once an account has seen MaxAttempts consecutive failed logins, a
\* login attempt made while its lockUntil is still in the future is answered
\* ACCOUNT_LOCKED, whatever the password, and comparePassword is not called.
C1_LockedLoginRejected ==
    (/\ req.op = "login" /\ req.uid # Null
     /\ req.failsBefore >= MaxAttempts
     /\ req.lockedBefore)
        => (res.code = "ACCOUNT_LOCKED" /\ res.status = 423 /\ ~req.compared)

\* the sixth attempt, with the right password, during the lock
C1_Witness ==
    /\ req.op = "login" /\ req.uid # Null
    /\ req.failsBefore >= MaxAttempts /\ req.lockedBefore
    /\ ComparePassword(users[req.uid], req.password)
    /\ res.code = "ACCOUNT_LOCKED"

\* C2: resetPassword changes the password only when the code presented is
\* the account's stored, unexpired code; without one the call fails and the
\* password hash stays what it was.
C2_ResetRequiresValidCode ==
    (req.op = "resetPassword" /\ req.uid # Null /\ ~req.validCode)
        => (res.status # 200 /\ users[req.uid].password = req.before.password)

\* a password change has just completed
PasswordChanged ==
    \/ req.op = "resetPassword" /\ res.status = 200
    \/ /\ req.op = "updateProfile" /\ res.status = 200
       /\ users[req.uid].password # req.before.password

\* C3: when a password change has completed, every unexpired token of the
\* account that a client holds (all were issued before the change) is
\* answered PASSWORD_CHANGED by protect.
C3_ChangeRevokesTokens ==
    PasswordChanged =>
        \A tok \in tokens :
            (tok.id = req.uid /\ NowSecs(now) < tok.exp)
                => Protect(tok, now) = "PASSWORD_CHANGED"

\* C4: a protected request whose token's iat is below the account's
\* passwordChangedAt, truncated to seconds, is rejected by protect; with
\* the token unexpired and the account active the code is PASSWORD_CHANGED.
C4_StaleTokenRejected ==
    (/\ req.op \in {"getMe", "updateProfile", "deleteAccount"}
     /\ req.before.passwordChangedAt # Null
     /\ req.token.iat < req.before.passwordChangedAt \div TicksPerSec)
        => /\ res.status = 401
           /\ res.code \in {"PASSWORD_CHANGED", "TOKEN_EXPIRED", "ACCOUNT_DEACTIVATED"}
           /\ (NowSecs(now) < req.token.exp /\ req.before.isActive)
                  => res.code = "PASSWORD_CHANGED"

\* an unexpired, signed token of an active account, refused for its age
C4_Witness ==
    /\ req.op = "getMe"
    /\ req.before.passwordChangedAt # Null
    /\ req.token.iat < req.before.passwordChangedAt \div TicksPerSec
    /\ NowSecs(now) < req.token.exp /\ req.before.isActive
    /\ res.code = "PASSWORD_CHANGED"

\* C5: forgotPassword answers alike for an address of no account, of an
\* inactive account, and of an active account whose code was delivered.
C5_SameAnswer ==
    (req.op = "forgotPassword" /\ req.case \in {"unknown", "inactive", "delivered"})
        => res = MaskedResponse

\* C6: a wrong password on an existing, active, unlocked account is answered
\* exactly as an identifier that matches no account.
C6_SameLoginAnswer ==
    (/\ req.op = "login" /\ req.uid # Null
     /\ req.before.isActive /\ ~req.lockedBefore
     /\ req.compared /\ res.status # 200)
        => res = NoSuchUser

\* C7: a code is single-use: right after a successful verifyOTP, or a
\* resetPassword that went through on the stored code, the same code is
\* accepted neither by verifyOTP nor by resetPassword.
C7_SingleUse ==
    (\/ req.op = "verifyOTP" /\ res.status = 200
     \/ req.op = "resetPassword" /\ res.status = 200 /\ req.validCode)
        => /\ ~CodeMatches(users[req.uid], req.email, req.otp, now)
           /\ \A p \in Passwords : ~ResetAccepts(req.email, req.otp, p)

\* C8: no account sees two successful resetPassword calls without a code
\* issued in between.
C8_OneResetPerCode ==
    \A i \in Ids : hist[i].resets = Null \/ hist[i].resets <= 1

\* C9: verifyOTP with a code that a later, different code has replaced is
\* answered INVALID_OTP although the replaced code's own expiry is ahead.
C9_SupersededCodeFails ==
    (/\ req.op = "verifyOTP" /\ req.uid # Null
     /\ hist[req.uid].old = req.otp
     /\ hist[req.uid].oldExp > now)
        => res.code = "INVALID_OTP"

\* the replaced code is refused while its successor is stored and valid
C9_Witness ==
    /\ req.op = "verifyOTP" /\ req.uid # Null
    /\ hist[req.uid].old = req.otp /\ hist[req.uid].oldExp > now
    /\ StoredOtp(users[req.uid]) \notin {"", req.otp}
    /\ users[req.uid].resetPasswordExpire > now
    /\ res.code = "INVALID_OTP"

\* C10: when the transport has delivered the message, forgotPassword
\* answers success and the delivered code's hash stays stored, expiring
\* OtpTtl after the request.
C10_DeliveredCodeStored ==
    (req.op = "forgotPassword" /\ req.case = "delivered")
        => /\ res.status = 200
           /\ users[req.uid].resetPasswordToken = HashOTP(req.otp)
           /\ users[req.uid].resetPasswordExpire = req.at + OtpTtl

\* C11: when the delivery fails (sendEmail throws, or does not report
\* success), forgotPassword has cleared the code hash and expiry it wrote, no
\* code of the account verifies, and the answer is the 500 delivery error,
\* not the answer given for an unknown address.
C11_FailedDeliveryRollsBack ==
    (/\ req.op = "forgotPassword"
     /\ req.case \in {"delivered", "undelivered"} /\ res.status # 200)
        => /\ users[req.uid].resetPasswordToken = NoHash
           /\ users[req.uid].resetPasswordExpire = Null
           /\ \A c \in Otps : ~CodeMatches(users[req.uid], users[req.uid].email, c, now)
           /\ res.status = 500
           /\ res # MaskedResponse

\* the transport threw after the code was saved
C11_Witness ==
    /\ req.op = "forgotPassword" /\ req.case = "undelivered"
    /\ req.otp \in Otps
    /\ res.status = 500
    /\ users[req.uid].resetPasswordToken = NoHash

\* C12: a login attempt on an active account whose lock expiry is set and
\* not in the future has its password checked, and with the correct
\* password it succeeds and returns a token.
C12_ExpiredLockIsOpen ==
    (/\ req.op = "login" /\ req.uid # Null
     /\ req.before.isActive
     /\ req.before.lockUntil # Null /\ ~req.lockedBefore)
        => /\ req.compared
           /\ ComparePassword(req.before, req.password)
                 => (res.status = 200 /\ res.token # NoToken
                     /\ res.token.id = req.uid)

\* the correct password after the lock has run out
C12_Witness ==
    /\ req.op = "login" /\ req.uid # Null
    /\ req.before.lockUntil # Null /\ ~req.lockedBefore
    /\ req.before.loginAttempts >= MaxAttempts
    /\ res.status = 200 /\ res.token # NoToken

\* C13: after a successful login the stored failed-attempt counter is 0 and
\* the lock expiry is unset.
C13_SuccessClearsGuard ==
    (req.op = "login" /\ res.status = 200)
        => /\ users[req.uid].loginAttempts = 0
           /\ users[req.uid].lockUntil = Null

\* a success that found a counter above 0 and an expired lock
C13_Witness ==
    /\ req.op = "login" /\ res.status = 200
    /\ req.before.loginAttempts > 0 /\ req.before.lockUntil # Null
    /\ users[req.uid].loginAttempts = 0

\* C14: a failed password check on an account that holds no lock expiry
\* raises the counter by exactly 1; the lock expiry is set exactly when the
\* counter reaches MaxAttempts, and then to the time of the attempt plus
\* LockTime.
C14_FailureCountsOnce ==
    [][(/\ req'.op = "login" /\ req'.uid # Null
        /\ req'.compared /\ res'.status # 200
        /\ users' # users
        /\ users[req'.uid].lockUntil = Null)
          => /\ users'[req'.uid].loginAttempts = users[req'.uid].loginAttempts + 1
             /\ (users'[req'.uid].lockUntil # Null)
                   <=> (users'[req'.uid].loginAttempts = MaxAttempts)
             /\ users'[req'.uid].lockUntil # Null
                   => users'[req'.uid].lockUntil = now' + LockTime]_vars

\* the fifth failure in a row sets the lock
C14_Witness ==
    /\ req.op = "login" /\ req.uid # Null /\ req.compared
    /\ req.before.lockUntil = Null /\ req.before.loginAttempts = MaxAttempts - 1
    /\ res.status # 200
    /\ users[req.uid].loginAttempts = MaxAttempts
    /\ users[req.uid].lockUntil = now + LockTime

\* C15: every ACCOUNT_LOCKED answer of login carries remainingSeconds > 0.
C15_RemainingPositive ==
    (req.op = "login" /\ res.code = "ACCOUNT_LOCKED")
        => res.remainingSeconds > 0

\* C16: no two account records share a username, and no two share an
\* email.
C16_UniqueIdentifiers ==
    \A i, j \in Ids :
        i # j => /\ users[i].username # users[j].username
                 /\ users[i].email # users[j].email

\* a register that passed its lookup and was refused by the index at the
\* insert, another request having taken the address in between
C16_Witness ==
    /\ req.op = "register" /\ req.emailTaken
    /\ res.status = 400 /\ res.message = "already exists"
    /\ Cardinality(Ids) >= 1

\* C17: register with the email of an existing account is answered with the
\* duplicate-email error (field email) and creates no account, whatever the
\* username.
C17_DuplicateEmailReported ==
    (req.op = "register" /\ req.emailTaken)
        => /\ res.status = 400 /\ res.field = "email"
           /\ Cardinality(Ids) = req.count

\* C18: after a successful deleteAccount the record is still there,
\* inactive, its username and email defaced, and no record carries the
\* original username or email; and a register of a username and email that
\* no record carries succeeds.
C18_SoftDeleteFreesIdentifiers ==
    /\ (req.op = "deleteAccount" /\ res.status = 200)
          => /\ req.uid \in Ids
             /\ ~users[req.uid].isActive
             /\ users[req.uid].email.base = req.before.email.base
             /\ users[req.uid].email.del # Null
             /\ users[req.uid].username.base = req.before.username.base
             /\ users[req.uid].username.del # Null
             /\ \A j \in Ids : /\ users[j].email # req.before.email
                                /\ users[j].username # req.before.username
    /\ (/\ req.op = "register" /\ ~req.emailTaken /\ ~req.nameTaken
        /\ res.field # "password")
          => (res.status = 201 /\ Cardinality(Ids) = req.count + 1)

\* the original username and email of a deactivated account, registered anew
C18_Witness ==
    /\ req.op = "register" /\ res.status = 201
    /\ \E j \in Ids : /\ ~users[j].isActive
                       /\ users[j].email.base = req.email
                       /\ users[j].email.del # Null
                       /\ users[j].username.base = req.username

\* C19: a protected request whose token's account is inactive is rejected
\* with 401 (ACCOUNT_DEACTIVATED when the token has not expired) and the
\* handler does not run; no token of an inactive account passes protect.
C19_InactiveSubjectRejected ==
    /\ (/\ req.op \in {"getMe", "updateProfile", "deleteAccount"}
        /\ ~req.before.isActive)
          => /\ res.status = 401
             /\ res.code \in {"ACCOUNT_DEACTIVATED", "TOKEN_EXPIRED"}
             /\ NowSecs(now) < req.token.exp => res.code = "ACCOUNT_DEACTIVATED"
             /\ users[req.uid] = req.before
    /\ \A tok \in tokens :
          (tok.id \in Ids /\ ~users[tok.id].isActive) => Protect(tok, now) # "OK"

\* an unexpired token of a deactivated account, presented and refused
C19_Witness ==
    /\ req.op = "getMe"
    /\ ~req.before.isActive /\ req.before.email.del # Null
    /\ NowSecs(now) < req.token.exp
    /\ res.code = "ACCOUNT_DEACTIVATED"

\* C20: on the user routes the response carries a replacement token exactly
\* when protect accepted the request's token and the token's remaining
\* lifetime is above 0 and below RefreshThresholdSecs; the replacement has
\* the same subject and the current second as its iat.
C20_RefreshWhenNearExpiry ==
    req.op \in {"updateProfile", "deleteAccount"} =>
        LET tok == req.token
            left == tok.exp - (req.at \div TicksPerSec)
            accepted == /\ left > 0
                        /\ req.before.isActive
                        /\ \/ req.before.passwordChangedAt = Null
                           \/ tok.iat >= req.before.passwordChangedAt \div TicksPerSec
        IN  /\ (res.newToken # NoToken) <=> (accepted /\ left < RefreshThresholdSecs)
            /\ res.newToken # NoToken
                  => /\ res.newToken.id = tok.id
                     /\ res.newToken.iat = req.at \div TicksPerSec

\* a profile update answered with a replacement token
C20_Witness ==
    /\ req.op = "updateProfile"
    /\ res.status = 200
    /\ res.newToken # NoToken /\ res.newToken.id = req.token.id
    /\ res.newToken.iat > req.token.iat

\* a token the client holds next to a later token of the same account that
\* was minted in the last RefreshThresholdSecs of its life
Replaced(tok) ==
    \E n \in tokens :
        /\ n.id = tok.id /\ n.at >= tok.at /\ n.iat > tok.iat
        /\ tok.exp - n.iat > 0 /\ tok.exp - n.iat < RefreshThresholdSecs

\* no password change of the account since the token was issued
NotChangedSince(u, tok) ==
    u.passwordChangedAt = Null \/ u.passwordChangedAt + TicksPerSec <= tok.at

\* C21: a token for which a replacement has been minted is still accepted by
\* protect until its own expiry, as long as the account is active and its
\* password has not changed since the token was issued.
C21_RefreshIsAdvisory ==
    /\ \A tok \in tokens :
          (/\ Replaced(tok) /\ NowSecs(now) < tok.exp
           /\ users[tok.id].isActive /\ NotChangedSince(users[tok.id], tok))
             => Protect(tok, now) = "OK"
    /\ (/\ req.op = "getMe" /\ Replaced(req.token)
        /\ NowSecs(now) < req.token.exp
        /\ req.before.isActive /\ NotChangedSince(req.before, req.token))
          => res.status = 200

\* the old token, presented after its replacement was handed out, accepted
C21_Witness ==
    /\ req.op = "getMe" /\ Replaced(req.token)
    /\ \E n \in tokens : n.id = req.token.id /\ n.at > req.token.at /\ n.at < now
    /\ NowSecs(now) < req.token.exp
    /\ res.status = 200

\* C22: verifyOTP answers success exactly when the account with the given
\* email stores the hash of the code presented and a code expiry strictly
\* later than the time of the request; otherwise it answers INVALID_OTP.
C22_VerifyExactly ==
    req.op = "verifyOTP" =>
        LET valid == \E i \in Ids :
                        /\ users[i].email = req.email
                        /\ users[i].resetPasswordToken = <<"sha256", req.otp>>
                        /\ users[i].resetPasswordExpire # Null
                        /\ users[i].resetPasswordExpire > req.at
        IN  /\ res.status = 200 <=> valid
            /\ ~valid => (res.status = 400 /\ res.code = "INVALID_OTP")

\* the stored code verified while its mail is still on the way
C22_Witness ==
    /\ req.op = "verifyOTP" /\ res.status = 200
    /\ req.uid # Null
    /\ users[req.uid].resetPasswordToken = HashOTP(req.otp)
    /\ users[req.uid].resetPasswordExpire > now

\* C23: the password last stored through the save hook (by register,
\* resetPassword or updateProfile) compares true against the stored digest
\* and every other password compares false; a login that succeeds was made
\* with the stored password.
C23_PasswordRoundTrip ==
    /\ \A i \in Ids :
          /\ ComparePassword(users[i], hist[i].stored)
          /\ \A p2 \in HashPasswords \ {hist[i].stored} : ~ComparePassword(users[i], p2)
    /\ (req.op = "login" /\ res.status = 200)
          => req.password = hist[req.uid].stored

\* C24: the account that a response of register, login, getMe, getProfile
\* or updateProfile carries has no password hash, no recovery-code hash and
\* no recovery-code expiry among its properties.
C24_NoSecretsInResponses ==
    req.op \in {"register", "login", "getMe", "getProfile", "updateProfile"}
        => DOMAIN res.user \cap
              {"password", "resetPasswordToken", "resetPasswordExpire"} = {}

\* the profile of an account that holds a recovery code, answered
C24_Witness ==
    /\ req.op = "getProfile" /\ res.status = 200
    /\ users[req.uid].resetPasswordToken # NoHash
    /\ users[req.uid].resetPasswordExpire # Null
    /\ "email" \in DOMAIN res.user /\ res.user.email = users[req.uid].email

\* C25: when failed login attempts on an account, overlapping or not, have
\* all completed and the stored counter is MaxAttempts or more, the lock
\* expiry is set and lies after the time the last of them completed.
C25_NoLostLock ==
    (/\ req.op = "login" /\ req.uid # Null
     /\ \A p \in Procs : fp[p].pc = "idle"
     /\ users[req.uid].loginAttempts >= MaxAttempts)
        => /\ users[req.uid].lockUntil # Null
           /\ users[req.uid].lockUntil > req.at

C27_LapsedLockRestartsCount ==
    (/\ req.op = "login" /\ req.uid # Null
     /\ req.compared /\ res.status # 200
     /\ req.before.lockUntil # Null /\ ~req.lockedBefore)
        => /\ users[req.uid].loginAttempts = 1
           /\ res.code # "ACCOUNT_LOCKED"

\* C28: after a successful resetPassword the account stores no code hash
\* and no code expiry, and its passwordChangedAt is the time of the reset.
C28_ResetStampsNow ==
    (req.op = "resetPassword" /\ res.status = 200)
        => /\ users[req.uid].resetPasswordToken = NoHash
           /\ users[req.uid].resetPasswordExpire = Null
           /\ users[req.uid].passwordChangedAt = req.at

\* C29: verifyOTP changes no account record, whether it succeeds or fails
\* (code hash, code expiry, password hash, counter and lock expiry stay what
\* they were), and right after a successful verifyOTP the same code still
\* verifies.
C29_VerifyChangesNothing ==
    /\ [][req'.op = "verifyOTP" => users' = users]_vars
    /\ [](/\ req.op = "verifyOTP" /\ res.status = 200 /\ now = req.at
            => CodeMatches(users[req.uid], req.email, req.otp, now))

\* a code verified, and still stored and valid
C29_Witness ==
    /\ req.op = "verifyOTP" /\ res.status = 200 /\ now = req.at
    /\ users[req.uid].resetPasswordToken = HashOTP(req.otp)
    /\ users[req.uid].resetPasswordExpire > now
    /\ users[req.uid].password = BcryptHash("secret1")

\* C30: forgotPassword for an address of no account or of an inactive
\* account stores no code, changes no account record and does not call
\* sendEmail (no request is left waiting for the transport).
C30_SilentForStrangers ==
    [][(/\ req'.op = "forgotPassword"
        /\ req'.case \in {"unknown", "inactive"})
          => /\ users' = users
             /\ fp' = fp]_vars

\* a request for the address of a deactivated account, answered, with
\* nothing stored and nothing sent
C30_Witness ==
    /\ req.op = "forgotPassword" /\ req.case = "inactive"
    /\ ~users[req.uid].isActive
    /\ users[req.uid].resetPasswordToken = NoHash
    /\ \A p \in Procs : fp[p].pc = "idle"
    /\ res = MaskedResponse

C32_LockedLoginWritesNothing ==
    (/\ req.op = "login" /\ req.uid # Null
     /\ res.code = "ACCOUNT_LOCKED" /\ ~req.compared)
        => /\ users[req.uid] = req.before
           /\ res.token = NoToken /\ res.newToken = NoToken

\* an attempt during the lock, the record untouched
C32_Witness ==
    /\ req.op = "login" /\ req.uid # Null
    /\ res.code = "ACCOUNT_LOCKED" /\ ~req.compared
    /\ req.before.loginAttempts = MaxAttempts
    /\ users[req.uid].lockUntil = req.before.lockUntil
    /\ users[req.uid].lockUntil > now

\* C33: with login attempts served one after another, at arbitrary times, no
\* account's failed-attempt counter exceeds 5 in any reachable state, and the
\* attemptsLeft that login reports is never negative.
C33_CounterAtMostFive ==
    /\ \A i \in DOMAIN users : users[i].loginAttempts <= MaxAttempts
    /\ res.attemptsLeft # Null => res.attemptsLeft >= 0

\* C34: updateProfile and deleteAccount, like login, count a candidate
\* password that does not match in the failed-attempt counter, and while the
\* account is locked they neither test a password nor act on one.
C34_Mismatch ==
    /\ req.op \in {"updateProfile", "deleteAccount"}
    /\ res.message \in {"Current password is incorrect", "Incorrect password"}

C34_EveryCheckCounts ==
    /\ C34_Mismatch => users[req.uid].loginAttempts > req.before.loginAttempts
    /\ (/\ req.op \in {"updateProfile", "deleteAccount"}
        /\ Locked(req.before, req.at))
           => /\ ~C34_Mismatch
              /\ users[req.uid].password = req.before.password
              /\ users[req.uid].isActive = req.before.isActive

\* C35: a successful resetPassword leaves the failed-attempt counter and the
\* lock expiry as they were, so an account locked before the reset is locked
\* after it.
C35_ResetKeepsLock ==
    (req.op = "resetPassword" /\ res.status = 200)
        => /\ users[req.uid].loginAttempts = req.before.loginAttempts
           /\ users[req.uid].lockUntil = req.before.lockUntil
           /\ Locked(req.before, req.at) => Locked(users[req.uid], req.at)

\* a locked account whose password was reset, still locked
C35_Witness ==
    /\ req.op = "resetPassword" /\ res.status = 200
    /\ Locked(req.before, req.at)
    /\ req.before.loginAttempts = MaxAttempts
    /\ users[req.uid].password # req.before.password
    /\ Locked(users[req.uid], now)

\* C36: whenever updateProfile answers with an error, the stored account is
\* the one it loaded: no requested username, email, password or
\* passwordChangedAt has been written.
C36_UpdateAllOrNothing ==
    (req.op = "updateProfile" /\ res.status # 200)
        => users[req.uid] = req.before

\* a request that changes the name or the address of the loaded document
\* and carries a wrong current password: refused, and the edits not written
C36_Witness ==
    /\ req.op = "updateProfile" /\ req.edits
    /\ res.status = 401 /\ res.field = "currentPassword"
    /\ users[req.uid] = req.before

\* C37: a token returned by register or login is accepted by protect at
\* every clock reading before its expiry while the account is active and
\* its password has not been replaced at a later clock reading than the
\* token's issue; a login in the second of a password change is included.
C37_Usable(tok) ==
    /\ tok.id \in Ids /\ NowSecs(now) < tok.exp
    /\ users[tok.id].isActive
    /\ hist[tok.id].changed = Null \/ hist[tok.id].changed <= tok.at

C37_IssuedTokenAccepted ==
    /\ \A tok \in tokens : C37_Usable(tok) => Protect(tok, now) = "OK"
    /\ (req.op \in {"register", "login"} /\ res.token # NoToken /\ C37_Usable(res.token))
          => Protect(res.token, now) = "OK"
    /\ (req.op = "getMe" /\ C37_Usable(req.token)) => res.status = 200

\* the token of a login made in the second in which the password was
\* replaced, presented after the clock has advanced, and accepted
C37_Witness ==
    /\ req.op = "getMe" /\ res.status = 200
    /\ req.token \in tokens /\ C37_Usable(req.token)
    /\ hist[req.token.id].changed # Null
    /\ NowSecs(hist[req.token.id].changed) = req.token.iat
    /\ now > req.token.at
====
